---- MODULE Spec2Model ----
(***************************************************************************)
(* Model of the CV toolkit scripts under src/utils:                        *)
(*   build_section.py       build_section and main                         *)
(*   generate_bibfiles.py   process_keywords, extract_tagged_entries, main *)
(*   create_cover_letter.py create_cover_letter and main                   *)
(* Text is modelled as a sequence of one-character strings, so that        *)
(* strip, split, join and startswith are computed as Python computes them. *)
(* The characters are the code points up to U+00FF, written as themselves, *)
(* and the en dash, Y with diaeresis and the Greek mu (capital and small), *)
(* written "U+2013", "U+0178", "U+039C", "U+03BC": the characters of the   *)
(* scripts' constants and the case images of the first group.              *)
(***************************************************************************)
EXTENDS Integers, Sequences, FiniteSets, TLC

(***************************************************************************)
(* Bounds of the model                                                     *)
(***************************************************************************)
\* largest number of units declared in the section
MaxUnits == 2
\* largest value of max_items that is tried
MaxItems == 2
\* largest number of comma-separated pieces in a keywords field
MaxKeywords == 2
\* largest number of entries in the bibliography
MaxEntries == 2
\* largest number of runs of generate_bibfiles on one output directory
MaxRuns == 2

(***************************************************************************)
(* Text helpers (Python str methods)                                       *)
(***************************************************************************)
\* the characters str.strip() removes: space, the controls U+0009-U+000D
\* and U+001C-U+001F, U+0085 and the no-break space
Whitespace ==
    {" ", "\n", "\t", "", "\f", "\r",
     "", "", "", "", "", " "}

\* the text of a string literal
Chars(str) == [i \in 1..Len(str) |-> SubSeq(str, i, i)]

RECURSIVE lstrip(_)
lstrip(s) ==
    IF s # <<>> /\ Head(s) \in Whitespace THEN lstrip(Tail(s)) ELSE s

RECURSIVE rstrip(_)
rstrip(s) ==
    IF s # <<>> /\ s[Len(s)] \in Whitespace
    THEN rstrip(SubSeq(s, 1, Len(s) - 1))
    ELSE s

\* a strip that forgets the trailing whitespace
strip_leading_only(s) == lstrip(s)

\* str.strip()
strip(s) == rstrip(lstrip(s))

\* sep.join(parts)
RECURSIVE join(_, _)
join(sep, parts) ==
    IF parts = <<>> THEN <<>>
    ELSE IF Len(parts) = 1 THEN parts[1]
    ELSE parts[1] \o sep \o join(sep, Tail(parts))

\* s.startswith(prefix)
startswith(s, prefix) ==
    /\ Len(prefix) <= Len(s)
    /\ SubSeq(s, 1, Len(prefix)) = prefix

\* `x in list`
InList(x, list) == \E i \in 1..Len(list) : list[i] = x

(***************************************************************************)
(* build_section.py                                                        *)
(***************************************************************************)
VARIABLES
    metadata,        \* result of load_metadata(): section -> sequence of units
    tags,            \* argument tags: None or a list
    max_items,       \* argument max_items: None or an integer
    exclude_tags,    \* argument exclude_tags: None or a list
    files,           \* units/<section>/<unit>.tex: unit name -> file state
    pc,              \* position in build_section
    filtered_units,  \* local filtered_units
    idx,             \* position of the read loop in filtered_units
    section_content, \* local section_content
    emitted,         \* names of the units whose content was appended
    warnings,        \* names of the units reported as "not found"
    result,          \* return value of build_section
    include_header,  \* args.include_header
    output,          \* args.output: None or a path
    outfs,           \* the output path on disk
    content,         \* local content of main
    mpc,             \* position in main
    exit_status      \* process exit status of main

buildVars == <<metadata, tags, max_items, exclude_tags, files, pc,
               filtered_units, idx, section_content, emitted, warnings, result>>
mainVars == <<include_header, output, outfs, content, mpc, exit_status>>

(***************************************************************************)
(* generate_bibfiles.py                                                    *)
(***************************************************************************)
VARIABLES
    input_bib,         \* args.input_bib: the file and the entries parsed from it
    map_file,          \* args.keyword_map: the mapping file
    valid_prefixes,    \* args.valid_prefixes
    tag_prefix,        \* args.prefix
    keyword_mappings,  \* local keyword_mappings of main
    processed_entries, \* local processed_entries of main
    subsets,           \* local subsets of main
    all_entries,       \* local all_entries of main
    bibfs,             \* the .bib files of args.output_dir
    bibfs0,            \* the .bib files when the current run started
    bpc,               \* position in main
    runs               \* number of runs started

bibVars == <<input_bib, map_file, valid_prefixes, tag_prefix, keyword_mappings,
             processed_entries, subsets, all_entries, bibfs, bibfs0, bpc, runs>>

(***************************************************************************)
(* create_cover_letter.py                                                  *)
(***************************************************************************)
VARIABLES
    directory,      \* the target directory on disk
    letter,         \* <directory>/cover_letter.tex on disk
    content_arg,    \* args.content and the file it names
    letter_args,    \* recipient, organization, location, opening, cv_file
    letter_content, \* local content of main
    success,        \* return value of create_cover_letter
    cpc             \* position in main and create_cover_letter

coverVars == <<directory, letter, content_arg, letter_args, letter_content,
               success, cpc>>

(***************************************************************************)
(* build_section.py, load_metadata                                         *)
(***************************************************************************)
VARIABLES
    meta_file,       \* utils/unit_metadata.yaml: the file and its lines
    lineno,          \* number of lines of the file consumed by the loop
    lmetadata,       \* local metadata of load_metadata
    current_section, \* local current_section: None or a name
    current_unit,    \* local current_unit: None or a name
    lpc              \* position in load_metadata, or the exception raised

loadVars == <<meta_file, lineno, lmetadata, current_section, current_unit, lpc>>

(***************************************************************************)
(* The console the scripts print to                                        *)
(***************************************************************************)
VARIABLES
    stdout_encoding  \* the encoding of sys.stdout

envVars == <<stdout_encoding>>

\* the encodings of Python fall in three classes by the symbols the scripts
\* print: none of them, the arrow only, all of them
StdoutEncodings == {"ascii", "gbk", "utf-8"}
RightArrow == "U+2192"
CheckMark == "U+2705"
CrossMark == "U+274C"
Memo == "U+1F4DD"
Wrench == "U+1F527"

\* print of a text with the symbol does not raise UnicodeEncodeError
Encodes(encoding, symbol) ==
    \/ encoding = "utf-8"
    \/ encoding = "gbk" /\ symbol = RightArrow

section_name == "education"

\* Python None and a present value, for optional arguments
None == [none |-> TRUE, val |-> <<>>]
Some(v) == [none |-> FALSE, val |-> v]
NoneInt == [none |-> TRUE, val |-> 0]

UnitNames == <<"u1", "u2", "u3", "u4">>

TagLists == {<<"a">>, <<"b">>, <<"a", "b">>}
\* the default of x[1].get('priority', 999)
DefaultPriority == 999
Priorities == {1, DefaultPriority}

\* properties of one unit: the keys 'tags' and 'priority' may be absent
UnitMetas ==
    { [hasTags |-> TRUE, tags |-> t, hasPriority |-> TRUE, priority |-> p] :
        t \in TagLists, p \in Priorities }
    \cup { [hasTags |-> FALSE, tags |-> <<>>, hasPriority |-> TRUE, priority |-> p] :
        p \in Priorities }
    \cup { [hasTags |-> TRUE, tags |-> t, hasPriority |-> FALSE, priority |-> 0] :
        t \in TagLists }
    \cup { [hasTags |-> FALSE, tags |-> <<>>, hasPriority |-> FALSE, priority |-> 0] }

\* the properties tried for the units after the second one
FewUnitMetas ==
    { [hasTags |-> TRUE, tags |-> <<"a">>, hasPriority |-> FALSE, priority |-> 0],
      [hasTags |-> TRUE, tags |-> <<"a", "b">>, hasPriority |-> TRUE, priority |-> 1] }

\* a section: units in declaration order, named u1, u2, ...
SectionDatas ==
    UNION { { [i \in 1..n |-> [name |-> UnitNames[i],
                                meta |-> IF i <= 2 THEN m[i] ELSE w[i]]] :
                m \in [1..(IF n < 2 THEN n ELSE 2) -> UnitMetas],
                w \in [3..n -> FewUnitMetas] } : n \in 0..MaxUnits }

\* file states of a unit: absent, whitespace only, or text around whitespace
NoFile == [exists |-> FALSE, text |-> <<>>]
FileStates(u) ==
    { NoFile,
      [exists |-> TRUE, text |-> <<" ", "\n">>],
      [exists |-> TRUE, text |-> <<" ", u, " ", u, "\n">>] }
\* the file states tried for the units after the second one
FewFileStates(u) ==
    { NoFile, [exists |-> TRUE, text |-> <<u, "\t", u>>] }
\* the files of the units of the section sd
UnitFiles(sd) ==
    { f \in [ {sd[i].name : i \in 1..Len(sd)} ->
               UNION { FileStates(UnitNames[i]) \cup FewFileStates(UnitNames[i]) :
                         i \in 1..Len(sd) } ] :
        \A i \in 1..Len(sd) :
            f[sd[i].name] \in IF i <= 2 THEN FileStates(sd[i].name)
                                        ELSE FewFileStates(sd[i].name) }

ArgTags == {None, Some(<<"a">>), Some(<<"b">>), Some(<<"a", "b">>)}
ArgExclude == {None, Some(<<>>), Some(<<"b">>)}
ArgMaxItems == {NoneInt} \cup { [none |-> FALSE, val |-> n] : n \in -1..MaxItems }

\* metadata.get(section_name, {})
section_data ==
    IF section_name \in DOMAIN metadata THEN metadata[section_name] ELSE <<>>

\* unit_meta.get('tags', [])
unit_tags(unit_meta) == IF unit_meta.hasTags THEN unit_meta.tags ELSE <<>>

\* any(tag in unit_tags for tag in tag_list)
AnyTagIn(tag_list, utags) ==
    \E i \in 1..Len(tag_list) : InList(tag_list[i], utags)

\* the truth value of a list argument: None and [] are falsy
Truthy(arg) == ~arg.none /\ arg.val # <<>>

\* a filter in which an included tag wins over an excluded tag
Keeps_include_first(unit) ==
    LET ut == unit_tags(unit.meta) IN
    IF tags.none \/ AnyTagIn(tags.val, ut)
    THEN TRUE
    ELSE ~(Truthy(exclude_tags) /\ AnyTagIn(exclude_tags.val, ut))

\* the loop body's decision for one unit (lines 100-108)
Keeps(unit) ==
    LET ut == unit_tags(unit.meta) IN
    IF Truthy(exclude_tags) /\ AnyTagIn(exclude_tags.val, ut)
    THEN FALSE
    ELSE tags.none \/ AnyTagIn(tags.val, ut)

\* the filter loop over section_data.items()
RECURSIVE FilterUnits(_)
FilterUnits(units) ==
    IF units = <<>> THEN <<>>
    ELSE IF Keeps(Head(units))
         THEN <<Head(units)>> \o FilterUnits(Tail(units))
         ELSE FilterUnits(Tail(units))

\* a sort key whose default puts units without priority first
SortKey_default_zero(unit) ==
    IF unit.meta.hasPriority THEN unit.meta.priority ELSE 0

\* key=lambda x: x[1].get('priority', 999)
SortKey(unit) ==
    IF unit.meta.hasPriority THEN unit.meta.priority ELSE DefaultPriority

\* insertion of one unit after the units whose key is not larger
RECURSIVE InsertByKey(_, _)
InsertByKey(unit, sorted) ==
    IF sorted = <<>> THEN <<unit>>
    ELSE IF SortKey(Head(sorted)) <= SortKey(unit)
         THEN <<Head(sorted)>> \o InsertByKey(unit, Tail(sorted))
         ELSE <<unit>> \o sorted

\* list.sort(key=...): a stable sort
RECURSIVE SortByPriority(_)
SortByPriority(units) ==
    IF units = <<>> THEN <<>>
    ELSE InsertByKey(units[Len(units)],
                     SortByPriority(SubSeq(units, 1, Len(units) - 1)))

\* units[:n] for an integer n of either sign
SliceTo(units, n) ==
    IF n >= 0
    THEN SubSeq(units, 1, IF n < Len(units) THEN n ELSE Len(units))
    ELSE SubSeq(units, 1, IF Len(units) + n > 0 THEN Len(units) + n ELSE 0)

\* a limit that counts only the units whose file has content
LimitUnits_after_read(units) ==
    LET HasText(unit) == /\ files[unit.name].exists
                         /\ strip(files[unit.name].text) # <<>>
    IN  IF ~max_items.none /\ max_items.val # 0
        THEN SliceTo(SelectSeq(units, HasText), max_items.val)
        ELSE units

\* if max_items: filtered_units = filtered_units[:max_items]
LimitUnits(units) ==
    IF ~max_items.none /\ max_items.val # 0
    THEN SliceTo(units, max_items.val)
    ELSE units

BuildIdle ==
    /\ metadata = <<>>
    /\ tags = None
    /\ max_items = NoneInt
    /\ exclude_tags = None
    /\ files = <<>>
    /\ pc = "idle"
    /\ filtered_units = <<>>
    /\ idx = 0
    /\ section_content = <<>>
    /\ emitted = <<>>
    /\ warnings = <<>>
    /\ result = <<>>

MainIdle ==
    /\ include_header = FALSE
    /\ output = None
    /\ outfs = [dir |-> FALSE, file |-> FALSE, text |-> <<>>]
    /\ content = <<>>
    /\ mpc = "idle"
    /\ exit_status = 0

BibIdle ==
    /\ input_bib = [exists |-> FALSE, entries |-> <<>>]
    /\ map_file = [exists |-> FALSE, lines |-> <<>>]
    /\ valid_prefixes = <<>>
    /\ tag_prefix = <<>>
    /\ keyword_mappings = <<>>
    /\ processed_entries = <<>>
    /\ subsets = <<>>
    /\ all_entries = <<>>
    /\ bibfs = <<>>
    /\ bibfs0 = <<>>
    /\ bpc = "idle"
    /\ runs = 0

CoverIdle ==
    /\ directory = "missing"
    /\ letter = [exists |-> FALSE, text |-> <<>>]
    /\ content_arg = [given |-> FALSE, readable |-> FALSE, text |-> <<>>]
    /\ letter_args = [recipient |-> "", organization |-> "", location |-> "",
                      opening |-> "", cv_file |-> ""]
    /\ letter_content = <<>>
    /\ success = FALSE
    /\ cpc = "idle"

LoadIdle ==
    /\ meta_file = [exists |-> FALSE, lines |-> <<>>]
    /\ lineno = 0
    /\ lmetadata = <<>>
    /\ current_section = None
    /\ current_unit = None
    /\ lpc = "idle"

\* the program state when build_section is entered
InitBuild ==
    /\ stdout_encoding = "utf-8"
    /\ \E present \in BOOLEAN, sd \in SectionDatas :
         /\ metadata = IF present THEN (section_name :> sd) ELSE <<>>
         /\ present \/ sd = <<>>
         /\ files \in UnitFiles(sd)
    /\ tags \in ArgTags
    /\ max_items \in ArgMaxItems
    /\ exclude_tags \in ArgExclude
    /\ pc = "load"
    /\ filtered_units = <<>>
    /\ idx = 0
    /\ section_content = <<>>
    /\ emitted = <<>>
    /\ warnings = <<>>
    /\ result = <<>>

\* lines 90-95: load the metadata, return "" when the section has no data
Load ==
    /\ pc = "load"
    /\ IF section_data = <<>>
       THEN /\ pc' = "done"
            /\ result' = <<>>
       ELSE /\ pc' = "filter"
            /\ UNCHANGED result
    /\ UNCHANGED <<metadata, tags, max_items, exclude_tags, files,
                   filtered_units, idx, section_content, emitted, warnings>>
    /\ UNCHANGED <<mainVars, bibVars, coverVars, loadVars, envVars>>

\* lines 97-108: the filter loop
Filter ==
    /\ pc = "filter"
    /\ filtered_units' = FilterUnits(section_data)
    /\ pc' = "sort"
    /\ UNCHANGED <<metadata, tags, max_items, exclude_tags, files,
                   idx, section_content, emitted, warnings, result>>
    /\ UNCHANGED <<mainVars, bibVars, coverVars, loadVars, envVars>>

\* lines 110-111: sort by priority
Sort ==
    /\ pc = "sort"
    /\ filtered_units' = SortByPriority(filtered_units)
    /\ pc' = "limit"
    /\ UNCHANGED <<metadata, tags, max_items, exclude_tags, files,
                   idx, section_content, emitted, warnings, result>>
    /\ UNCHANGED <<mainVars, bibVars, coverVars, loadVars, envVars>>

\* lines 113-115: limit the number of items
Limit ==
    /\ pc = "limit"
    /\ filtered_units' = LimitUnits(filtered_units)
    /\ idx' = 1
    /\ pc' = "read"
    /\ UNCHANGED <<metadata, tags, max_items, exclude_tags, files,
                   section_content, emitted, warnings, result>>
    /\ UNCHANGED <<mainVars, bibVars, coverVars, loadVars, envVars>>

\* lines 119-127: one iteration of the loop that reads the unit files
ReadUnit ==
    /\ pc = "read"
    /\ idx <= Len(filtered_units)
    /\ LET unit == filtered_units[idx]
           unit_file == files[unit.name]
           text == strip(unit_file.text)
       IN  IF unit_file.exists
           THEN /\ IF text # <<>>
                   THEN /\ section_content' = Append(section_content, text)
                        /\ emitted' = Append(emitted, unit.name)
                   ELSE UNCHANGED <<section_content, emitted>>
                /\ UNCHANGED warnings
           ELSE /\ warnings' = Append(warnings, unit.name)
                /\ UNCHANGED <<section_content, emitted>>
    /\ idx' = idx + 1
    /\ UNCHANGED <<metadata, tags, max_items, exclude_tags, files, pc,
                   filtered_units, result>>
    /\ UNCHANGED <<mainVars, bibVars, coverVars, loadVars, envVars>>

\* lines 129-133: return "" or the joined contents
Return ==
    /\ pc = "read"
    /\ idx > Len(filtered_units)
    /\ result' = IF section_content = <<>>
                 THEN <<>>
                 ELSE join(<<"\n", "\n">>, section_content)
    /\ pc' = "done"
    /\ UNCHANGED <<metadata, tags, max_items, exclude_tags, files,
                   filtered_units, idx, section_content, emitted, warnings>>
    /\ UNCHANGED <<mainVars, bibVars, coverVars, loadVars, envVars>>

\* the cased characters, and the characters str.lower() and str.title()
\* change, each list aligned with the list of its images
Cased ==
    LET c == Chars("ABCDEFGHIJKLMNOPQRSTUVWXYZabcdef")
             \o Chars("ghijklmnopqrstuvwxyzªµºÀÁÂÃÄÅÆÇÈ")
             \o Chars("ÉÊËÌÍÎÏÐÑÒÓÔÕÖØÙÚÛÜÝÞßàáâãäåæçèé")
             \o Chars("êëìíîïðñòóôõöøùúûüýþÿ")
             \o <<"U+0178">>
             \o <<"U+039C">>
             \o <<"U+03BC">>
    IN { c[i] : i \in 1..Len(c) }
LowerFrom ==
    Chars("ABCDEFGHIJKLMNOPQRSTUVWXYZÀÁÂÃÄÅ")
    \o Chars("ÆÇÈÉÊËÌÍÎÏÐÑÒÓÔÕÖØÙÚÛÜÝÞ")
    \o <<"U+0178">>
    \o <<"U+039C">>
LowerTo ==
    Chars("abcdefghijklmnopqrstuvwxyzàáâãäå")
    \o Chars("æçèéêëìíîïðñòóôõöøùúûüýþÿ")
    \o <<"U+03BC">>
TitleFrom ==
    Chars("abcdefghijklmnopqrstuvwxyzµàáâãä")
    \o Chars("åæçèéêëìíîïðñòóôõöøùúûüýþÿ")
    \o <<"U+03BC">>
TitleTo ==
    Chars("ABCDEFGHIJKLMNOPQRSTUVWXYZ")
    \o <<"U+039C">>
    \o Chars("ÀÁÂÃÄÅÆÇÈÉÊËÌÍÎÏÐÑÒÓÔÕÖØÙÚÛÜÝÞ")
    \o <<"U+0178">>
    \o <<"U+039C">>

\* c.lower() and c.title() for one character
tolower(c) ==
    IF \E i \in 1..Len(LowerFrom) : LowerFrom[i] = c
    THEN <<LowerTo[CHOOSE i \in 1..Len(LowerFrom) : LowerFrom[i] = c]>>
    ELSE <<c>>
totitle(c) ==
    IF c = "ß" THEN <<"S", "s">>
    ELSE IF \E i \in 1..Len(TitleFrom) : TitleFrom[i] = c
    THEN <<TitleTo[CHOOSE i \in 1..Len(TitleFrom) : TitleFrom[i] = c]>>
    ELSE <<c>>

\* str.title(): a character after a cased one is lowered, any other titled
RECURSIVE title_from(_, _)
title_from(s, previous_is_cased) ==
    IF s = <<>> THEN <<>>
    ELSE (IF previous_is_cased THEN tolower(Head(s)) ELSE totitle(Head(s)))
         \o title_from(Tail(s), Head(s) \in Cased)
title(s) == title_from(s, FALSE)

\* the dict headers of get_section_header, as (section name, header) pairs
headers ==
    {
      <<Chars("education"),
        Chars("\\section{Education, Scholarships \\& Distinctions}")>>,
      <<Chars("experience"),
        Chars("\\section{Professional Experience}")>>,
      <<Chars("projects"),
        Chars("\\section{Open")
        \o <<"U+2013">>
        \o Chars("Source Tools \\& Projects}")>>,
      <<Chars("teaching"),
        Chars("\\section{Teaching Experience}")>>,
      <<Chars("skills"),
        Chars("\\section{Technical Skills}")>>,
      <<Chars("publications"),
        Chars("\\section{Publications}")>>,
      <<Chars("activism"),
        Chars("\\section{Community Service \\& Activism}")>>
    }

\* headers.get(section_name, '\\section{' + section_name.title() + '}')
get_section_header(name) ==
    IF \E h \in headers : h[1] = name
    THEN (CHOOSE h \in headers : h[1] = name)[2]
    ELSE Chars("\\section{") \o title(name) \o Chars("}")

\* states of the --output path: parent directory and file, with old text
OldText == <<"o", "l", "d">>
OutStates ==
    { [dir |-> FALSE, file |-> FALSE, text |-> <<>>],
      [dir |-> TRUE, file |-> FALSE, text |-> <<>>],
      [dir |-> TRUE, file |-> TRUE, text |-> OldText] }

\* the program state when main has parsed its arguments
InitMain ==
    /\ InitBuild
    /\ exclude_tags = None
    /\ max_items.none
    /\ include_header \in BOOLEAN
    /\ output \in {None, Some(<<"sections/education.tex">>)}
    /\ outfs \in OutStates
    /\ content = <<>>
    /\ mpc = "call"
    /\ exit_status = 0
    /\ BibIdle
    /\ CoverIdle
    /\ LoadIdle

\* a main that does not stop on empty content
MainCheck_no_exit ==
    /\ mpc = "call"
    /\ pc = "done"
    /\ content' = result
    /\ mpc' = "header"
    /\ UNCHANGED <<include_header, output, outfs, exit_status>>
    /\ UNCHANGED <<buildVars, bibVars, coverVars, loadVars, envVars>>

\* lines 189-193: take the value build_section returned, exit 1 when empty
MainCheck ==
    /\ mpc = "call"
    /\ pc = "done"
    /\ content' = result
    /\ IF result = <<>>
       THEN /\ exit_status' = 1
            /\ mpc' = "exit"
       ELSE /\ mpc' = "header"
            /\ UNCHANGED exit_status
    /\ UNCHANGED <<include_header, output, outfs>>
    /\ UNCHANGED <<buildVars, bibVars, coverVars, loadVars, envVars>>

\* lines 195-198: prepend the section header
MainHeader ==
    /\ mpc = "header"
    /\ content' = IF include_header
                  THEN get_section_header(Chars(section_name)) \o <<"\n", "\n">> \o content
                  ELSE content
    /\ mpc' = "write"
    /\ UNCHANGED <<include_header, output, outfs, exit_status>>
    /\ UNCHANGED <<buildVars, bibVars, coverVars, loadVars, envVars>>

\* lines 200-212: write the output file, or print
MainWrite ==
    /\ mpc = "write"
    /\ outfs' = IF ~output.none
                THEN [dir |-> TRUE, file |-> TRUE, text |-> content]
                ELSE outfs
    /\ mpc' = "exit"
    /\ UNCHANGED <<include_header, output, content, exit_status>>
    /\ UNCHANGED <<buildVars, bibVars, coverVars, loadVars, envVars>>

vars == <<buildVars, mainVars, bibVars, coverVars, loadVars, envVars>>

InitBuildSection == InitBuild /\ MainIdle /\ BibIdle /\ CoverIdle /\ LoadIdle

NextBuild == Load \/ Filter \/ Sort \/ Limit \/ ReadUnit \/ Return

\* build_section called as a function
SpecBuild == InitBuildSection /\ [][NextBuild]_vars

NextMain ==
    \/ Load \/ Filter \/ Sort \/ Limit \/ ReadUnit \/ Return
    \/ MainCheck \/ MainHeader \/ MainWrite

\* the script run from the command line
SpecMain == InitMain /\ [][NextMain]_vars

(***************************************************************************)
(* Properties of build_section.py                                          *)
(***************************************************************************)
Range(seq) == { seq[i] : i \in 1..Len(seq) }
Units == Range(section_data)
Names(units) == { units[i].name : i \in 1..Len(units) }
UnitOf(name) == CHOOSE u \in Units : u.name = name
DeclIndex(name) == CHOOSE i \in 1..Len(section_data) : section_data[i].name = name

\* the unit carries the tag t
Carries(unit, t) == unit.meta.hasTags /\ t \in Range(unit.meta.tags)

\* the selection rule as the documentation states it
Selected(unit) ==
    /\ \/ exclude_tags.none
       \/ exclude_tags.val = <<>>
       \/ \A t \in Range(exclude_tags.val) : ~Carries(unit, t)
    /\ \/ tags.none
       \/ \E t \in Range(tags.val) : Carries(unit, t)

\* the priority a unit is ordered by
PriorityOf(name) ==
    LET m == UnitOf(name).meta IN IF m.hasPriority THEN m.priority ELSE 999

\* name1 comes before name2: lower priority number, declaration order on ties
Before(name1, name2) ==
    \/ PriorityOf(name1) < PriorityOf(name2)
    \/ /\ PriorityOf(name1) = PriorityOf(name2)
       /\ DeclIndex(name1) < DeclIndex(name2)

\* position of a selected unit among the selected units, in priority order
Rank(name) ==
    1 + Cardinality({ u \in Units : Selected(u) /\ Before(u.name, name) })

\* the file of the unit exists and holds more than whitespace
HasContent(name) ==
    /\ files[name].exists
    /\ \E i \in 1..Len(files[name].text) : files[name].text[i] \notin Whitespace

\* text without its leading and trailing whitespace
Trimmed(s) ==
    LET ink == { i \in 1..Len(s) : s[i] \notin Whitespace } IN
    IF ink = {} THEN <<>>
    ELSE SubSeq(s, CHOOSE i \in ink : \A j \in ink : i <= j,
                   CHOOSE i \in ink : \A j \in ink : i >= j)

\* the texts of parts, one blank line between two of them
RECURSIVE BlankLineJoined(_, _)
BlankLineJoined(parts, n) ==
    IF n = 0 THEN <<>>
    ELSE IF n = 1 THEN parts[1]
    ELSE BlankLineJoined(parts, n - 1) \o <<"\n", "\n">> \o parts[n]

\* C1: after the filter loop a unit is in filtered_units iff it carries none
\* of exclude_tags (or exclude_tags is empty/None) and tags is None or it
\* carries one of tags; a unit with an included and an excluded tag is out,
\* and a unit without 'tags' is in only when tags is None.
C1_FilterSelects ==
    pc = "sort" =>
        \A u \in Units :
            /\ (u.name \in Names(filtered_units)) <=> Selected(u)
            /\ ( /\ ~tags.none /\ ~exclude_tags.none
                 /\ \E t \in Range(tags.val) : Carries(u, t)
                 /\ \E t \in Range(exclude_tags.val) : Carries(u, t) )
               => u.name \notin Names(filtered_units)
            /\ (~u.meta.hasTags /\ u.name \in Names(filtered_units)) => tags.none

C1_Witness ==
    /\ pc = "sort"
    /\ ~tags.none /\ ~exclude_tags.none
    /\ \E u, v \in Units :
         /\ \E t \in Range(tags.val) : Carries(u, t)
         /\ \E t \in Range(exclude_tags.val) : Carries(u, t)
         /\ u.name \notin Names(filtered_units)
         /\ v.name \in Names(filtered_units)

\* C2: the emitted units are in non-decreasing order of priority, a unit
\* without priority counting as 999, and units of equal priority keep their
\* declaration order.
C2_PriorityOrder ==
    pc = "done" =>
        \A i, j \in 1..Len(emitted) :
            i < j => Before(emitted[i], emitted[j])

C2_Witness ==
    /\ pc = "done"
    /\ Len(emitted) = 2
    /\ DeclIndex(emitted[1]) > DeclIndex(emitted[2])
    /\ ~UnitOf(emitted[2]).meta.hasPriority

\* C3: for every max_items = N >= 0 the content is assembled from at most N
\* units, taken from the N first selected units in priority order.
C3_AtMostMaxItems ==
    (pc = "done" /\ ~max_items.none /\ max_items.val >= 0) =>
        /\ Len(emitted) <= max_items.val
        /\ \A i \in 1..Len(emitted) : Rank(emitted[i]) <= max_items.val

\* C4: a unit whose file is missing gives a warning and the loop goes on;
\* the returned string is the stripped texts of the units of filtered_units
\* whose file exists and is not blank, in order, joined by "\n\n".
C4_ReturnedText ==
    /\ (pc = "read" /\ idx <= Len(filtered_units)) => ENABLED ReadUnit
    /\ pc = "done" =>
        LET kept == SelectSeq(filtered_units, LAMBDA u : HasContent(u.name))
            lost == SelectSeq(filtered_units, LAMBDA u : ~files[u.name].exists)
            texts == [i \in 1..Len(kept) |-> Trimmed(files[kept[i].name].text)]
        IN  /\ result = BlankLineJoined(texts, Len(texts))
            /\ warnings = [i \in 1..Len(lost) |-> lost[i].name]
            /\ emitted = [i \in 1..Len(kept) |-> kept[i].name]

C4_Witness ==
    /\ pc = "done"
    /\ Len(emitted) = 1
    /\ Len(warnings) = 1
    /\ DeclIndex(warnings[1]) < DeclIndex(emitted[1])
    /\ result # <<>>

\* no unit of the section yields content
NoContent == \A u \in Units : Selected(u) => ~HasContent(u.name)

\* C5: when no unit yields content build_section returns "" and main exits
\* with status 1 and leaves the output path as it was, with or without
\* --include-header.
C5_NoContentNoOutput ==
    [][ NoContent =>
          /\ outfs' = outfs
          /\ pc' = "done" => result' = <<>>
          /\ mpc' = "exit" => exit_status' = 1 ]_vars

C5_Witness ==
    /\ mpc = "exit"
    /\ exit_status = 1
    /\ include_header
    /\ ~output.none
    /\ outfs.file /\ outfs.text = OldText
    /\ \E u \in Units : Selected(u) /\ files[u.name].exists

\* C10: with a positive max_items = N the limit is applied before the files
\* are looked at: the emitted units are exactly the units among the N first
\* selected units, in priority order, whose file has content, and no later unit
\* takes the place of a dropped one.
C10_LimitBeforeRead ==
    (~max_items.none /\ max_items.val >= 1) =>
        /\ pc = "read" => Len(filtered_units) <= max_items.val
        /\ pc \in {"load", "filter", "sort", "limit"} => emitted = <<>> /\ warnings = <<>>
        /\ pc = "done" =>
             \A u \in Units :
                 u.name \in Range(emitted) <=>
                     /\ Selected(u)
                     /\ Rank(u.name) <= max_items.val
                     /\ HasContent(u.name)

C10_Witness ==
    /\ pc = "done"
    /\ ~max_items.none /\ max_items.val = 1
    /\ emitted = <<>>
    /\ \E u, v \in Units :
         /\ Selected(u) /\ Rank(u.name) = 1 /\ ~HasContent(u.name)
         /\ Selected(v) /\ Rank(v.name) = 2 /\ HasContent(v.name)

(***************************************************************************)
(* generate_bibfiles.py                                                    *)
(***************************************************************************)
\* index of the first occurrence of sep in s at or after i, 0 when none
RECURSIVE find(_, _, _)
find(s, sep, i) ==
    IF i + Len(sep) - 1 > Len(s) THEN 0
    ELSE IF SubSeq(s, i, i + Len(sep) - 1) = sep THEN i
    ELSE find(s, sep, i + 1)

\* s.split(sep)
RECURSIVE split(_, _)
split(s, sep) ==
    LET i == find(s, sep, 1) IN
    IF i = 0 THEN <<s>>
    ELSE <<SubSeq(s, 1, i - 1)>> \o split(SubSeq(s, i + Len(sep), Len(s)), sep)

\* d[key] = value for a dict kept as a function
DictSet(d, key, value) ==
    [k \in DOMAIN d \cup {key} |-> IF k = key THEN value ELSE d[k]]

\* d[key] = entry for a dict of entries kept in insertion order
RECURSIVE EntriesSet(_, _, _)
EntriesSet(d, key, entry) ==
    IF d = <<>> THEN <<[key |-> key, entry |-> entry]>>
    ELSE IF Head(d).key = key
         THEN <<[key |-> key, entry |-> entry]>> \o Tail(d)
         ELSE <<Head(d)>> \o EntriesSet(Tail(d), key, entry)

\* `key in d` and d[key] for a dict kept in insertion order
HasKey(d, key) == \E i \in 1..Len(d) : d[i].key = key
Lookup(d, key) == d[CHOOSE i \in 1..Len(d) : d[i].key = key].entry

Comma == <<",">>
CommaSpace == <<",", " ">>
Arrow == <<" ", "-", ">", " ">>
Pub == <<"p", "u", "b", ":">>
Topic == <<"t", "o", "p", "i", "c", ":">>
Meta == <<"m", "e", "t", "a", ":">>
\* valid_prefixes = ["pub:", "topic:", "meta:"]
DefaultPrefixes == <<Pub, Topic, Meta>>
DotBib == <<".", "b", "i", "b">>
\* os.path.join(args.output_dir, "all.bib")
AllBib == <<"a", "l", "l">> \o DotBib

\* the body of the loop of load_keyword_mappings for one line
MappingLine(mappings, rawline) ==
    LET line == strip(rawline)
        i == find(line, Arrow, 1)
    IN  IF line # <<>> /\ Head(line) # "#" /\ i # 0
        THEN DictSet(mappings,
                     strip(SubSeq(line, 1, i - 1)),
                     strip(SubSeq(line, i + Len(Arrow), Len(line))))
        ELSE mappings

RECURSIVE MappingLines(_, _)
MappingLines(mappings, lines) ==
    IF lines = <<>> THEN mappings
    ELSE MappingLines(MappingLine(mappings, Head(lines)), Tail(lines))

\* load_keyword_mappings(mapping_file)
load_keyword_mappings(file) ==
    IF file.exists THEN MappingLines(<<>>, file.lines) ELSE <<>>

\* any(mapped_kw.startswith(prefix) for prefix in prefixes)
HasValidPrefix(kw, prefixes) ==
    \E i \in 1..Len(prefixes) : startswith(kw, prefixes[i])

\* the loop of process_keywords: remap, keep the prefixed keywords
RECURSIVE Remap(_, _, _)
Remap(keywords, mappings, prefixes) ==
    IF keywords = <<>> THEN <<>>
    ELSE LET kw == Head(keywords)
             mapped_kw == IF kw \in DOMAIN mappings THEN mappings[kw] ELSE kw
             rest == Remap(Tail(keywords), mappings, prefixes)
         IN  IF HasValidPrefix(mapped_kw, prefixes)
             THEN <<mapped_kw>> \o rest
             ELSE rest

\* process_keywords(entry, keyword_mappings, valid_prefixes)
process_keywords(entry, mappings, prefixes) ==
    IF ~entry.hasKeywords THEN entry
    ELSE LET pieces == split(entry.keywords, Comma)
             keywords == [i \in 1..Len(pieces) |-> strip(pieces[i])]
             remapped == Remap(keywords, mappings,
                               IF prefixes.none THEN DefaultPrefixes ELSE prefixes.val)
         IN  [type |-> entry.type,
              title |-> entry.title,
              hasKeywords |-> remapped # <<>>,
              keywords |-> IF remapped # <<>> THEN join(CommaSpace, remapped) ELSE <<>>,
              persons |-> entry.persons]

\* tags taken from the keywords as they stand between the commas
RECURSIVE TagsOf_unstripped(_, _)
TagsOf_unstripped(pieces, prefix) ==
    IF pieces = <<>> THEN <<>>
    ELSE IF startswith(Head(pieces), prefix)
         THEN <<Head(pieces)>> \o TagsOf_unstripped(Tail(pieces), prefix)
         ELSE TagsOf_unstripped(Tail(pieces), prefix)

\* the tags of one entry: stripped keywords that start with tag_prefix
RECURSIVE TagsOf(_, _)
TagsOf(pieces, prefix) ==
    IF pieces = <<>> THEN <<>>
    ELSE IF startswith(strip(Head(pieces)), prefix)
         THEN <<strip(Head(pieces))>> \o TagsOf(Tail(pieces), prefix)
         ELSE TagsOf(Tail(pieces), prefix)

\* for tag in tags: subsets[subset_name][key] = entry
RECURSIVE AddToSubsets(_, _, _, _)
AddToSubsets(subs, taglist, prefix, item) ==
    IF taglist = <<>> THEN subs
    ELSE LET tag == Head(taglist)
             subset_name == strip(SubSeq(tag, Len(prefix) + 1, Len(tag)))
             old == IF HasKey(subs, subset_name) THEN Lookup(subs, subset_name) ELSE <<>>
             new == IF subset_name # <<>>
                    THEN EntriesSet(subs, subset_name,
                                    EntriesSet(old, item.key, item.entry))
                    ELSE subs
         IN  AddToSubsets(new, Tail(taglist), prefix, item)

\* extract_tagged_entries(bib_data, tag_prefix), from the state acc
RECURSIVE ExtractFrom(_, _, _)
ExtractFrom(acc, entries, prefix) ==
    IF entries = <<>> THEN acc
    ELSE LET item == Head(entries)
             keywords == IF item.entry.hasKeywords THEN item.entry.keywords ELSE <<>>
             taglist == TagsOf(split(keywords, Comma), prefix)
         IN  ExtractFrom([subsets |-> AddToSubsets(acc.subsets, taglist, prefix, item),
                          all_entries |-> EntriesSet(acc.all_entries, item.key, item.entry)],
                         Tail(entries), prefix)

extract_tagged_entries(entries, prefix) ==
    ExtractFrom([subsets |-> <<>>, all_entries |-> <<>>], entries, prefix)

\* inputs
K_pubj == Pub \o <<"j">>
K_pubc == <<" ">> \o Pub \o <<"c", " ">>
K_puball == Pub \o <<"a", "l", "l">>
K_pub == Pub
K_topicm == Topic \o <<"m">>
K_x == <<"x">>
K_y == <<"y">>
RawKeywords == {K_pubj, K_pubc, K_pub, K_topicm, K_x, K_y}

\* keywords fields: up to MaxKeywords raw keywords separated by commas
KeywordFields ==
    UNION { { join(Comma, l) : l \in [1..n -> RawKeywords] } : n \in 0..MaxKeywords }
FewKeywordFields == {K_pubj, K_x \o Comma \o K_pubc, K_topicm \o CommaSpace \o K_pubj}

BibEntry(i, has, kws) ==
    [type |-> "article", title |-> UnitNames[i], hasKeywords |-> has,
     keywords |-> kws, persons |-> UnitNames[i]]
EntryKeys == <<"k1", "k2", "k3", "k4">>

\* the choices for the keywords field of one entry: absent, or one of fields
KeywordChoices(fields) ==
    { [has |-> TRUE, kws |-> k] : k \in fields } \cup { [has |-> FALSE, kws |-> <<>>] }

\* the entries of a bibliography: the keywords of the first entry from first,
\* those of the other entries from others
BibEntries(first, others) ==
    { <<>> } \cup
    UNION { { [i \in 1..n |->
                 [key |-> EntryKeys[i],
                  entry |-> IF i = 1 THEN BibEntry(1, c1.has, c1.kws)
                                      ELSE BibEntry(i, c[i].has, c[i].kws)]] :
                c1 \in KeywordChoices(first),
                c \in [2..n -> KeywordChoices(others)] } :
            n \in 1..MaxEntries }

MapLines1 == << K_x \o Arrow \o K_pubj \o <<"\n">>,
                K_y \o Arrow \o K_x \o <<"\n">> >>
MapLines2 == << <<"#">> \o K_x \o Arrow \o K_pubj \o <<"\n">>,
                <<"\n">>,
                <<" ">> \o K_x \o Arrow \o <<" ">> \o Pub \o <<" ", "a", ",", "y", "\n">> >>
MapLines3 == << K_pubj \o Arrow \o K_y,
                K_y \o <<" ", "-", ">">> >>
MapFiles ==
    { [exists |-> FALSE, lines |-> <<>>],
      [exists |-> TRUE, lines |-> MapLines1],
      [exists |-> TRUE, lines |-> MapLines2],
      [exists |-> TRUE, lines |-> MapLines3] }

ArgValidPrefixes == { Some(DefaultPrefixes), Some(<<Pub>>) }
ArgTagPrefix == { Pub, Topic }

\* the .bib files of the output directory before the first run
OldEntries == <<[key |-> "k0", entry |-> BibEntry(4, FALSE, <<>>)]>>
GoneBib == <<"g", "o", "n", "e">> \o DotBib
BibDirs0 ==
    { <<>>,
      AllBib :> OldEntries,
      GoneBib :> OldEntries }

BibLocalsInit ==
    /\ keyword_mappings = <<>>
    /\ processed_entries = <<>>
    /\ subsets = <<>>
    /\ all_entries = <<>>
    /\ bpc = "load"

\* main has parsed its arguments: one run on rich keywords fields
InitKeywords ==
    /\ \/ /\ input_bib \in { [exists |-> TRUE, entries |-> e] :
                               e \in BibEntries(KeywordFields, FewKeywordFields) }
          /\ map_file \in MapFiles
          /\ valid_prefixes \in ArgValidPrefixes
          /\ tag_prefix \in ArgTagPrefix
          /\ stdout_encoding = "utf-8"
       \/ /\ input_bib = [exists |-> FALSE, entries |-> <<>>]
          /\ map_file = [exists |-> FALSE, lines |-> <<>>]
          /\ valid_prefixes = Some(DefaultPrefixes)
          /\ tag_prefix = Pub
          /\ stdout_encoding = "utf-8"
       \/ /\ input_bib \in { [exists |-> TRUE, entries |-> e] :
                               e \in BibEntries(FewKeywordFields, FewKeywordFields) }
          /\ map_file = [exists |-> FALSE, lines |-> <<>>]
          /\ valid_prefixes = Some(DefaultPrefixes)
          /\ tag_prefix = Pub
          /\ stdout_encoding \in StdoutEncodings \ {"utf-8"}
    /\ bibfs = <<>>
    /\ bibfs0 = <<>>
    /\ runs = 1
    /\ BibLocalsInit
    /\ BuildIdle /\ MainIdle /\ CoverIdle /\ LoadIdle

\* lines 108-118: input check, makedirs, load the mappings, parse the input
BibLoad ==
    /\ bpc = "load"
    /\ IF ~input_bib.exists
       THEN /\ bpc' = "failed"
            /\ UNCHANGED keyword_mappings
       ELSE /\ keyword_mappings' = load_keyword_mappings(map_file)
            /\ bpc' = "process"
    /\ UNCHANGED <<input_bib, map_file, valid_prefixes, tag_prefix,
                   processed_entries, subsets, all_entries, bibfs, bibfs0, runs>>
    /\ UNCHANGED <<buildVars, mainVars, coverVars, loadVars, envVars>>

\* lines 120-128: process the keywords of every entry
BibProcess ==
    /\ bpc = "process"
    /\ processed_entries' =
         [i \in 1..Len(input_bib.entries) |->
            [key |-> input_bib.entries[i].key,
             entry |-> process_keywords(input_bib.entries[i].entry,
                                        keyword_mappings, valid_prefixes)]]
    /\ bpc' = "extract"
    /\ UNCHANGED <<input_bib, map_file, valid_prefixes, tag_prefix,
                   keyword_mappings, subsets, all_entries, bibfs, bibfs0, runs>>
    /\ UNCHANGED <<buildVars, mainVars, coverVars, loadVars, envVars>>

\* lines 130-131: extract the tagged entries
BibExtract ==
    /\ bpc = "extract"
    /\ LET r == extract_tagged_entries(processed_entries, tag_prefix) IN
         /\ subsets' = r.subsets
         /\ all_entries' = r.all_entries
    /\ bpc' = "subsets"
    /\ UNCHANGED <<input_bib, map_file, valid_prefixes, tag_prefix,
                   keyword_mappings, processed_entries, bibfs, bibfs0, runs>>
    /\ UNCHANGED <<buildVars, mainVars, coverVars, loadVars, envVars>>

\* BibliographyData(entries=entries).to_file(out_path) for the subsets subs,
\* in the order of the dict
RECURSIVE WriteSubsets(_, _)
WriteSubsets(fs, subs) ==
    IF subs = <<>> THEN fs
    ELSE WriteSubsets(DictSet(fs, Head(subs).key \o DotBib, Head(subs).entry),
                      Tail(subs))

\* lines 133-137: write one file per subset and print its line; the print
\* after the first file ends the run when the console has no arrow
BibWriteSubsets ==
    /\ bpc = "subsets"
    /\ IF subsets = <<>> \/ Encodes(stdout_encoding, RightArrow)
       THEN /\ bibfs' = WriteSubsets(bibfs, subsets)
            /\ bpc' = "all"
       ELSE /\ bibfs' = WriteSubsets(bibfs, <<Head(subsets)>>)
            /\ bpc' = "UnicodeEncodeError"
    /\ UNCHANGED <<input_bib, map_file, valid_prefixes, tag_prefix, keyword_mappings,
                   processed_entries, subsets, all_entries, bibfs0, runs>>
    /\ UNCHANGED <<buildVars, mainVars, coverVars, loadVars, envVars>>

\* lines 139-143: write all.bib if it doesn't exist, and print its line
BibWriteAll ==
    /\ bpc = "all"
    /\ IF AllBib \notin DOMAIN bibfs
       THEN /\ bibfs' = DictSet(bibfs, AllBib, all_entries)
            /\ bpc' = IF Encodes(stdout_encoding, RightArrow)
                      THEN "done" ELSE "UnicodeEncodeError"
       ELSE /\ bibfs' = bibfs
            /\ bpc' = "done"
    /\ UNCHANGED <<input_bib, map_file, valid_prefixes, tag_prefix, keyword_mappings,
                   processed_entries, subsets, all_entries, bibfs0, runs>>
    /\ UNCHANGED <<buildVars, mainVars, coverVars, loadVars, envVars>>

NextKeywords == BibLoad \/ BibProcess \/ BibExtract \/ BibWriteSubsets \/ BibWriteAll

\* one run of generate_bibfiles
SpecKeywords == InitKeywords /\ [][NextKeywords]_vars

\* the inputs of repeated runs on one output directory
RunFields == {K_pubj, K_puball}
RunBibs ==
    { [exists |-> TRUE, entries |-> e] : e \in BibEntries(RunFields, RunFields) }
    \cup { [exists |-> FALSE, entries |-> <<>>] }

\* the first of several runs on an output directory that may hold files
InitRuns ==
    /\ stdout_encoding \in StdoutEncodings
    /\ input_bib \in RunBibs
    /\ map_file = [exists |-> FALSE, lines |-> <<>>]
    /\ valid_prefixes = Some(DefaultPrefixes)
    /\ tag_prefix = Pub
    /\ bibfs \in BibDirs0
    /\ bibfs0 = bibfs
    /\ runs = 1
    /\ BibLocalsInit
    /\ BuildIdle /\ MainIdle /\ CoverIdle /\ LoadIdle

\* the script is run again on the same output directory
BibRerun ==
    /\ bpc \in {"done", "failed", "UnicodeEncodeError"}
    /\ runs < MaxRuns
    /\ runs' = runs + 1
    /\ input_bib' \in RunBibs
    /\ stdout_encoding' \in StdoutEncodings
    /\ bibfs0' = bibfs
    /\ keyword_mappings' = <<>>
    /\ processed_entries' = <<>>
    /\ subsets' = <<>>
    /\ all_entries' = <<>>
    /\ bpc' = "load"
    /\ UNCHANGED <<map_file, valid_prefixes, tag_prefix, bibfs>>
    /\ UNCHANGED <<buildVars, mainVars, coverVars, loadVars>>

NextRuns ==
    \/ BibLoad \/ BibProcess \/ BibExtract \/ BibWriteSubsets \/ BibWriteAll
    \/ BibRerun

\* runs of generate_bibfiles on one output directory
SpecRuns == InitRuns /\ [][NextRuns]_vars

(***************************************************************************)
(* Properties of generate_bibfiles.py                                      *)
(***************************************************************************)
\* the positions that bound the comma-separated pieces of s
Cuts(s) == {0, Len(s) + 1} \cup { i \in 1..Len(s) : s[i] = "," }
NthCut(s, n) ==
    CHOOSE c \in Cuts(s) : Cardinality({ d \in Cuts(s) : d < c }) = n - 1

\* the keywords a keywords field lists: its comma-separated pieces, trimmed
KeywordsOf(s) ==
    [n \in 1..(Cardinality(Cuts(s)) - 1) |->
        Trimmed(SubSeq(s, NthCut(s, n) + 1, NthCut(s, n + 1) - 1))]

\* kw is prefix followed by rest
IsPrefixed(kw, prefix) ==
    /\ Len(prefix) <= Len(kw)
    /\ \A j \in 1..Len(prefix) : kw[j] = prefix[j]
RestAfter(kw, prefix) == SubSeq(kw, Len(prefix) + 1, Len(kw))

ValidPrefixSet ==
    IF valid_prefixes.none THEN {Pub, Topic, Meta} ELSE Range(valid_prefixes.val)
StartsValid(kw) == \E p \in ValidPrefixSet : IsPrefixed(kw, p)

\* the keyword after one lookup in the mappings
Mapped(kw) == IF kw \in DOMAIN keyword_mappings THEN keyword_mappings[kw] ELSE kw

\* the remapped keywords of a field that are kept, in their order
KeptKeywords(s) ==
    SelectSeq([n \in 1..Len(KeywordsOf(s)) |-> Mapped(KeywordsOf(s)[n])], StartsValid)

\* C6: for an entry with a keywords field every keyword is trimmed, remapped
\* once and kept iff it then starts with a valid prefix; the new field lists
\* the kept keywords in order or is removed when none is kept; the other
\* fields and the persons are unchanged; afterwards every keyword of the entry
\* starts with a valid prefix.
C6_ProcessKeywords ==
    bpc = "extract" =>
        \A i \in 1..Len(input_bib.entries) :
            LET e == input_bib.entries[i].entry
                p == processed_entries[i].entry
            IN  /\ processed_entries[i].key = input_bib.entries[i].key
                /\ p.type = e.type /\ p.title = e.title /\ p.persons = e.persons
                /\ ~e.hasKeywords => p = e
                /\ e.hasKeywords =>
                     /\ p.hasKeywords <=> KeptKeywords(e.keywords) # <<>>
                     /\ p.hasKeywords =>
                          /\ KeywordsOf(p.keywords) = KeptKeywords(e.keywords)
                          /\ \A n \in 1..Len(KeywordsOf(p.keywords)) :
                               StartsValid(KeywordsOf(p.keywords)[n])

\* the names of the subsets the keywords field s puts an entry in
SubsetNamesOf(s) ==
    { Trimmed(RestAfter(KeywordsOf(s)[n], tag_prefix)) :
        n \in { m \in 1..Len(KeywordsOf(s)) : IsPrefixed(KeywordsOf(s)[m], tag_prefix) } }
    \ { <<>> }

FieldOf(entry) == IF entry.hasKeywords THEN entry.keywords ELSE <<>>

\* the subsets of main, by name
SubsetNames == { subsets[i].key : i \in 1..Len(subsets) }
SubsetEntries(S) == Lookup(subsets, S)

\* C7: an entry is in subset S iff one of its trimmed keywords is tag_prefix
\* followed by a name that trims to the non-empty S; no subset is empty;
\* all_entries holds every input entry exactly once and contains every subset.
C7_TaggedSubsets ==
    bpc = "subsets" =>
        /\ all_entries = processed_entries
        /\ \A i, j \in 1..Len(all_entries) :
               all_entries[i].key = all_entries[j].key => i = j
        /\ \A S \in SubsetNames :
               /\ S # <<>>
               /\ SubsetEntries(S) # <<>>
               /\ Range(SubsetEntries(S)) \subseteq Range(all_entries)
        /\ \A item \in Range(processed_entries) :
               \A S \in SubsetNames \cup SubsetNamesOf(FieldOf(item.entry)) :
                   (S \in SubsetNames /\ item \in Range(SubsetEntries(S)))
                       <=> S \in SubsetNamesOf(FieldOf(item.entry))

C7_Witness ==
    /\ bpc = "subsets"
    /\ Cardinality(SubsetNames) >= 2
    /\ \E item \in Range(processed_entries) :
         Cardinality({ S \in SubsetNames : item \in Range(SubsetEntries(S)) }) >= 2
    /\ \E item \in Range(processed_entries) :
         /\ item.entry.hasKeywords
         /\ \A S \in SubsetNames : item \notin Range(SubsetEntries(S))

\* C8: a run leaves an all.bib that existed at its start unchanged, rewrites
\* every <subset>.bib it produces with the entries of this run, and leaves the
\* files of subsets that no longer occur untouched.
C8_AllBibWrittenOnce ==
    bpc = "done" =>
        /\ AllBib \in DOMAIN bibfs0 => bibfs[AllBib] = bibfs0[AllBib]
        /\ \A name \in SubsetNames : bibfs[name \o DotBib] = SubsetEntries(name)
        /\ \A f \in DOMAIN bibfs0 :
               (f # AllBib /\ \A name \in SubsetNames : f # name \o DotBib)
                   => bibfs[f] = bibfs0[f]

(***************************************************************************)
(* create_cover_letter.py                                                  *)
(***************************************************************************)
\* default_content of main
DefaultContent ==
    Chars("I am writing to express my strong interest in contributing to your org")
    \o Chars("anization's mission. As a biomedical scientist with expertise in compu")
    \o Chars("tational biology, data science, and software development, I am excited")
    \o Chars(" about the opportunity to apply my skills to advance scientific resear")
    \o Chars("ch and innovation.\n")
    \o Chars("\n")
    \o Chars("My background includes:\n")
    \o Chars("\n")
    \o Chars("\\begin{itemize}\n")
    \o Chars("\\item \\textbf{Computational Biology \\& Bioinformatics}: Extensive expe")
    \o Chars("rience in analyzing large-scale biological datasets\n")
    \o Chars("\\item \\textbf{Software Development}: Proficient in R, Python, and Rust")
    \o Chars(" with experience developing research tools\n")
    \o Chars("\\item \\textbf{Data Science \\& Machine Learning}: Applied statistical m")
    \o Chars("odeling to biomedical research questions\n")
    \o Chars("\\item \\textbf{Open Science}: Committed to reproducible research and co")
    \o Chars("llaborative science\n")
    \o Chars("\\end{itemize}\n")
    \o Chars("\n")
    \o Chars("I am excited about the possibility of contributing to your team's impo")
    \o Chars("rtant work and would welcome the opportunity to discuss how my skills ")
    \o Chars("and experience can benefit your organization.\n")
    \o Chars("\n")
    \o Chars("Thank you for your consideration. I look forward to hearing from you.")

\* the literal parts of COVER_LETTER_TEMPLATE, between its fields
TemplateHead ==
    Chars("\\documentclass[10pt,letterpaper,sans]{moderncv}\n")
    \o Chars("\\moderncvstyle{classic}\n")
    \o Chars("\\moderncvcolor{cerulean}\n")
    \o Chars("\\usepackage[hmargin=0.75in,vmargin=0.75in]{geometry}\n")
    \o Chars("\\usepackage[utf8]{inputenc}\n")
    \o Chars("\\usepackage[T1]{fontenc}\n")
    \o Chars("\n")
    \o Chars("% Personal information (matches ")
TemplateRecipient ==
    Chars(")\n")
    \o Chars("\\name{Ali Sajid}{Imami}\n")
    \o Chars("\\address{2050 Country Trace Pl, Apt 3C}{Toledo, OH 43615}{USA}\n")
    \o Chars("\\phone[mobile]{+1~(567)~698~3744}\n")
    \o Chars("\\email{Ali.Sajid.Imami@gmail.com}\n")
    \o Chars("\\email{Ali.Imami@rockets.utoledo.edu}\n")
    \o Chars("\\homepage{www.aliimami.com}\n")
    \o Chars("\\social[linkedin]{asimami}\n")
    \o Chars("\\social[github]{AliSajid}\n")
    \o Chars("\\social[orcid]{0000-0003-3684-3539}\n")
    \o Chars("\n")
    \o Chars("% Cover letter recipient information\n")
    \o Chars("\\recipient{")
TemplateOrganization ==
    Chars("}{")
TemplateLocation ==
    Chars("\\\\")
TemplateOpening ==
    Chars("}\n")
    \o Chars("\\date{\\today}\n")
    \o Chars("\\opening{")
TemplateBody ==
    Chars("}\n")
    \o Chars("\\closing{Sincerely,}\n")
    \o Chars("\n")
    \o Chars("\\begin{document}\n")
    \o Chars("\n")
    \o Chars("\\makelettertitle\n")
    \o Chars("\n")
TemplateTail ==
    Chars("\n")
    \o Chars("\n")
    \o Chars("\\makeletterclosing\n")
    \o Chars("\n")
    \o Chars("\\end{document}")

\* COVER_LETTER_TEMPLATE.format(...)
Render(a, text) ==
    TemplateHead \o Chars(a.cv_file)
    \o TemplateRecipient \o Chars(a.recipient)
    \o TemplateOrganization \o Chars(a.organization)
    \o TemplateLocation \o Chars(a.location)
    \o TemplateOpening \o Chars(a.opening)
    \o TemplateBody \o text
    \o TemplateTail

OldLetter == [exists |-> TRUE, text |-> <<"o", "l", "d">>]
NoLetter == [exists |-> FALSE, text |-> <<>>]

LetterArgs ==
    [recipient : {"Hiring Manager", "Dr. X"},
     organization : {"Org"},
     location : {"Toledo"},
     opening : {"Dear Hiring Manager,", "Dear Dr. X,"},
     cv_file : {"cv.tex", "short.tex"}]

\* --content: not given, a file that cannot be read, or a readable file
ContentArgs ==
    { [given |-> FALSE, readable |-> FALSE, text |-> <<>>],
      [given |-> TRUE, readable |-> FALSE, text |-> <<>>],
      [given |-> TRUE, readable |-> TRUE, text |-> <<>>],
      [given |-> TRUE, readable |-> TRUE, text |-> <<" ", "H", "i", " ", "!", "\n">>] }

\* main has parsed its arguments
InitCover ==
    /\ stdout_encoding \in StdoutEncodings
    /\ directory \in {"missing", "dir", "notdir"}
    /\ letter \in {NoLetter, OldLetter}
    /\ letter.exists => directory = "dir"
    /\ content_arg \in ContentArgs
    /\ letter_args \in LetterArgs
    /\ letter_content = <<>>
    /\ success = FALSE
    /\ cpc = "read"
    /\ BuildIdle /\ MainIdle /\ BibIdle /\ LoadIdle

\* lines 111-118: the content is the default unless the file can be read
CoverReadContent ==
    /\ cpc = "read"
    /\ letter_content' = IF content_arg.given /\ content_arg.readable
                         THEN strip(content_arg.text)
                         ELSE DefaultContent
    /\ cpc' = "check"
    /\ UNCHANGED <<directory, letter, content_arg, letter_args, success>>
    /\ UNCHANGED <<buildVars, mainVars, bibVars, loadVars, envVars>>

\* lines 52-55: return False when the directory does not exist
CoverCheckDir ==
    /\ cpc = "check"
    /\ IF directory = "missing"
       THEN /\ success' = FALSE
            /\ cpc' = "report"
       ELSE /\ cpc' = "write"
            /\ UNCHANGED success
    /\ UNCHANGED <<directory, letter, content_arg, letter_args, letter_content>>
    /\ UNCHANGED <<buildVars, mainVars, bibVars, loadVars, envVars>>

\* lines 57-75: format the letter, write it and print the result.  open or
\* write may fail; the print of the try block and the print of the handler
\* raise UnicodeEncodeError when the console lacks their symbol, and an
\* exception raised in the handler leaves create_cover_letter and ends main
CoverWrite ==
    /\ cpc = "write"
    /\ \E outcome \in {"ok", "open fails", "write fails"} :
         /\ directory = "notdir" => outcome = "open fails"
         /\ CASE outcome = "ok" ->
                   letter' = [exists |-> TRUE,
                              text |-> Render(letter_args, letter_content)]
              [] outcome = "open fails" ->
                   letter' = letter
              [] outcome = "write fails" ->
                   \* the file holds the part written before the failure
                   \E n \in 0..(Len(Render(letter_args, letter_content)) - 1) :
                        letter' = [exists |-> TRUE,
                                   text |-> SubSeq(Render(letter_args, letter_content), 1, n)]
         /\ IF outcome = "ok" /\ Encodes(stdout_encoding, CheckMark)
            THEN /\ success' = TRUE
                 /\ cpc' = "report"
            ELSE IF Encodes(stdout_encoding, CrossMark)
            THEN /\ success' = FALSE
                 /\ cpc' = "report"
            ELSE /\ UNCHANGED success
                 /\ cpc' = "UnicodeEncodeError"
    /\ UNCHANGED <<directory, content_arg, letter_args, letter_content>>
    /\ UNCHANGED <<buildVars, mainVars, bibVars, loadVars, envVars>>

\* lines 130-132: main prints the two hints when the letter was created
CoverReport ==
    /\ cpc = "report"
    /\ cpc' = IF /\ success
                 /\ ~(Encodes(stdout_encoding, Memo) /\ Encodes(stdout_encoding, Wrench))
              THEN "UnicodeEncodeError"
              ELSE "done"
    /\ UNCHANGED <<directory, letter, content_arg, letter_args, letter_content, success>>
    /\ UNCHANGED <<buildVars, mainVars, bibVars, loadVars, envVars>>

NextCover == CoverReadContent \/ CoverCheckDir \/ CoverWrite \/ CoverReport

\* the script create_cover_letter.py
SpecCover == InitCover /\ [][NextCover]_vars

(***************************************************************************)
(* Properties of create_cover_letter.py                                    *)
(***************************************************************************)
\* cover_letter.tex holds the letter made from the arguments and text
LetterWritten(text) ==
    letter = [exists |-> TRUE, text |-> Render(letter_args, text)]

\* C9: with a missing directory create_cover_letter returns False, writes no
\* file and does not create the directory; it returns True exactly when
\* cover_letter.tex was written; a failed write gives False and nothing is
\* raised; an unreadable --content file makes main use the default content
\* and go on.
C9_CoverLetter ==
    [][ /\ directory = "missing" =>
             /\ directory' = "missing"
             /\ letter' = letter
             /\ cpc' \in {"report", "done"} => ~success'
        /\ cpc' \notin {"idle", "read", "check", "write"} =>
             /\ success' <=> (LetterWritten(letter_content))'
             /\ success' => directory' = "dir"
        /\ cpc = "write" => cpc' = "report"
        /\ (cpc = "read" /\ content_arg.given /\ ~content_arg.readable) =>
             /\ cpc' = "check"
             /\ letter_content' = DefaultContent
        /\ (cpc' = "done" /\ content_arg.given /\ ~content_arg.readable /\ success') =>
             (LetterWritten(DefaultContent))' ]_vars

(***************************************************************************)
(* build_section.py, load_metadata: the line parser of                     *)
(* utils/unit_metadata.yaml.  The dicts are kept in insertion order as     *)
(* sequences of [key, entry]; a property value is a record whose kind      *)
(* tells which of items, num and text holds it.                            *)
(***************************************************************************)
MaxLines == 4

\* s.endswith(suffix)
endswith(s, suffix) ==
    /\ Len(suffix) <= Len(s)
    /\ SubSeq(s, Len(s) - Len(suffix) + 1, Len(s)) = suffix

\* the characters str.isdigit() accepts: the decimal digits, and the
\* superscript digits, which int() rejects
DecimalDigits == {"0", "1", "2", "3", "4", "5", "6", "7", "8", "9"}
OtherDigits == {"²", "³", "¹"}

\* value.isdigit()
isdigit(value) ==
    /\ value # <<>>
    /\ \A i \in 1..Len(value) : value[i] \in DecimalDigits \cup OtherDigits

\* int(value) raises ValueError unless every character is a decimal digit
IntRaises(value) == \E i \in 1..Len(value) : value[i] \notin DecimalDigits

DigitValue(c) ==
    CASE c = "0" -> 0 [] c = "1" -> 1 [] c = "2" -> 2 [] c = "3" -> 3
      [] c = "4" -> 4 [] c = "5" -> 5 [] c = "6" -> 6 [] c = "7" -> 7
      [] c = "8" -> 8 [] c = "9" -> 9

\* int(value) for a value of decimal digits
RECURSIVE IntOf(_)
IntOf(value) ==
    IF value = <<>> THEN 0
    ELSE 10 * IntOf(SubSeq(value, 1, Len(value) - 1)) + DigitValue(value[Len(value)])

ListValue(items) == [kind |-> "list", items |-> items, num |-> 0, text |-> <<>>]
IntValue(n) == [kind |-> "int", items |-> <<>>, num |-> n, text |-> <<>>]
StrValue(text) == [kind |-> "str", items |-> <<>>, num |-> 0, text |-> text]

\* [tag.strip() for tag in pieces if tag.strip()]
RECURSIVE StripNonEmpty(_)
StripNonEmpty(pieces) ==
    IF pieces = <<>> THEN <<>>
    ELSE IF strip(Head(pieces)) # <<>>
         THEN <<strip(Head(pieces))>> \o StripNonEmpty(Tail(pieces))
         ELSE StripNonEmpty(Tail(pieces))

\* value[1:-1]
Inner(value) == SubSeq(value, 2, Len(value) - 1)

\* the value a property line stores (lines 61-73), int(value) not raising
ParseValue(value) ==
    IF startswith(value, <<"[">>) /\ endswith(value, <<"]">>)
    THEN ListValue(StripNonEmpty(split(Inner(value), Comma)))
    ELSE IF isdigit(value)
    THEN IntValue(IntOf(value))
    ELSE IF startswith(value, <<"\"">>) /\ endswith(value, <<"\"">>)
         THEN StrValue(Inner(value))
         ELSE StrValue(value)

\* the branch of the loop body that a line, already rstripped, takes
LineKind(line) ==
    IF strip(line) = <<>> \/ startswith(strip(line), <<"#">>) THEN "skip"
    ELSE IF endswith(line, <<":">>) /\ ~startswith(line, <<" ">>) THEN "section"
    ELSE IF /\ startswith(line, <<" ", " ">>)
            /\ endswith(line, <<":">>)
            /\ ~startswith(line, <<" ", " ", " ", " ">>)
         THEN "unit"
    ELSE IF startswith(line, <<" ", " ", " ", " ">>) /\ find(line, <<":">>, 1) # 0
         THEN "property"
    ELSE "other"

\* key, value = line.strip().split(':', 1); value = value.strip()
PropKey(line) ==
    LET t == strip(line) IN SubSeq(t, 1, find(t, <<":">>, 1) - 1)
PropValue(line) ==
    LET t == strip(line) IN strip(SubSeq(t, find(t, <<":">>, 1) + 1, Len(t)))

\* the lines a metadata file is made of
Indent2 == <<" ", " ">>
Indent4 == <<" ", " ", " ", " ">>
MetaLines ==
    { <<"a", ":", "\n">>,
      <<"b", ":", "\n">>,
      Indent2 \o <<"u", ":", "\n">>,
      Indent2 \o <<"v", ":", " ", "\n">>,
      <<"\n">>,
      Indent2 \o <<"#", " ", "c", "\n">>,
      <<" ", "x", ":", "\n">>,
      Indent4 \o <<"k", ":", " ", "[", "x", ",", " ", ",", "y", " ", "]", "\n">>,
      Indent4 \o <<"n", ":", " ", "0", "7", "\n">>,
      Indent4 \o <<"s", ":", " ", "\"", "q", "\"", "\n">>,
      Indent4 \o <<"s", ":", " ", "\"", "\n">>,
      Indent4 \o <<"n", ":", " ", "²", "\n">>,
      Indent4 \o <<"k", ":", " ", "x", "\n">> }

MetaFiles ==
    {[exists |-> FALSE, lines |-> <<>>]} \cup
    { [exists |-> TRUE, lines |-> ls] :
        ls \in UNION { [1..n -> MetaLines] : n \in 0..MaxLines } }

\* the program state when load_metadata is entered
InitLoad ==
    /\ meta_file \in MetaFiles
    /\ lineno = 0
    /\ lmetadata = <<>>
    /\ current_section = None
    /\ current_unit = None
    /\ lpc = "check"
    /\ stdout_encoding = "utf-8"
    /\ BuildIdle /\ MainIdle /\ BibIdle /\ CoverIdle

\* lines 23-31: a missing file ends the program, else the locals are set
LoadCheck ==
    /\ lpc = "check"
    /\ lpc' = IF meta_file.exists THEN "loop" ELSE "exit"
    /\ UNCHANGED <<meta_file, lineno, lmetadata, current_section, current_unit>>
    /\ UNCHANGED <<buildVars, mainVars, bibVars, coverVars, envVars>>

\* the line the loop is about to read, after line.rstrip()
HasLine == lpc = "loop" /\ lineno < Len(meta_file.lines)
Line == rstrip(meta_file.lines[lineno + 1])

\* lines 38-39: a blank line or a comment
LoadSkip ==
    /\ HasLine
    /\ LineKind(Line) = "skip"
    /\ lineno' = lineno + 1
    /\ UNCHANGED <<meta_file, lmetadata, current_section, current_unit, lpc>>
    /\ UNCHANGED <<buildVars, mainVars, bibVars, coverVars, envVars>>

\* lines 42-45: a section header
LoadSection ==
    /\ HasLine
    /\ LineKind(Line) = "section"
    /\ LET name == SubSeq(Line, 1, Len(Line) - 1) IN
        /\ current_section' = Some(name)
        /\ lmetadata' = EntriesSet(lmetadata, name, <<>>)
    /\ lineno' = lineno + 1
    /\ UNCHANGED <<meta_file, current_unit, lpc>>
    /\ UNCHANGED <<buildVars, mainVars, bibVars, coverVars, envVars>>

\* lines 48-52: a unit header
LoadUnit ==
    /\ HasLine
    /\ LineKind(Line) = "unit"
    /\ LET t == strip(Line)
           name == SubSeq(t, 1, Len(t) - 1) IN
        /\ current_unit' = Some(name)
        /\ lmetadata' =
             IF Truthy(current_section)
             THEN EntriesSet(lmetadata, current_section.val,
                      EntriesSet(Lookup(lmetadata, current_section.val), name, <<>>))
             ELSE lmetadata
    /\ lineno' = lineno + 1
    /\ UNCHANGED <<meta_file, current_section, lpc>>
    /\ UNCHANGED <<buildVars, mainVars, bibVars, coverVars, envVars>>

\* lines 55-73: a property line; int(value) is evaluated before the
\* subscription metadata[current_section][current_unit]
LoadProperty ==
    /\ HasLine
    /\ LineKind(Line) = "property"
    /\ LET key == PropKey(Line)
           value == PropValue(Line)
           isList == startswith(value, <<"[">>) /\ endswith(value, <<"]">>)
       IN
        IF ~(Truthy(current_section) /\ Truthy(current_unit))
        THEN /\ lineno' = lineno + 1
             /\ UNCHANGED <<lmetadata, lpc>>
        ELSE IF ~isList /\ isdigit(value) /\ IntRaises(value)
        THEN /\ lpc' = "ValueError"
             /\ UNCHANGED <<lmetadata, lineno>>
        ELSE IF ~HasKey(Lookup(lmetadata, current_section.val), current_unit.val)
        THEN /\ lpc' = "KeyError"
             /\ UNCHANGED <<lmetadata, lineno>>
        ELSE LET units == Lookup(lmetadata, current_section.val)
                 props == Lookup(units, current_unit.val) IN
             /\ lmetadata' =
                  EntriesSet(lmetadata, current_section.val,
                      EntriesSet(units, current_unit.val,
                          EntriesSet(props, key, ParseValue(value))))
             /\ lineno' = lineno + 1
             /\ UNCHANGED lpc
    /\ UNCHANGED <<meta_file, current_section, current_unit>>
    /\ UNCHANGED <<buildVars, mainVars, bibVars, coverVars, envVars>>

\* a line none of the three tests accepts falls through the loop body
LoadOther ==
    /\ HasLine
    /\ LineKind(Line) = "other"
    /\ lineno' = lineno + 1
    /\ UNCHANGED <<meta_file, lmetadata, current_section, current_unit, lpc>>
    /\ UNCHANGED <<buildVars, mainVars, bibVars, coverVars, envVars>>

\* line 75: return metadata
LoadReturn ==
    /\ lpc = "loop"
    /\ lineno = Len(meta_file.lines)
    /\ lpc' = "done"
    /\ UNCHANGED <<meta_file, lineno, lmetadata, current_section, current_unit>>
    /\ UNCHANGED <<buildVars, mainVars, bibVars, coverVars, envVars>>

NextLoad ==
    \/ LoadCheck
    \/ LoadSkip
    \/ LoadSection
    \/ LoadUnit
    \/ LoadProperty
    \/ LoadOther
    \/ LoadReturn

SpecLoad == InitLoad /\ [][NextLoad]_vars

(***************************************************************************)
(* load_metadata: what the documentation says of a metadata file           *)
(***************************************************************************)
\* the line the loop reads next, as written in the file
RawLine == meta_file.lines[lineno + 1]

InkOf(s) == { i \in 1..Len(s) : s[i] \notin Whitespace }
IsBlankLine(s) == InkOf(s) = {}
\* the first non-blank character is '#'
IsCommentLine(s) == ~IsBlankLine(s) /\ Trimmed(s)[1] = "#"
\* the number of spaces the line begins with
LeadingSpaces(s) ==
    Cardinality({ i \in 1..Len(s) : \A j \in 1..i : s[j] = " " })
EndsWithColon(s) == ~IsBlankLine(s) /\ Trimmed(s)[Len(Trimmed(s))] = ":"
Written(s) == ~IsBlankLine(s) /\ ~IsCommentLine(s)

IsSectionHeader(s) == Written(s) /\ LeadingSpaces(s) = 0 /\ EndsWithColon(s)
IsUnitHeader(s) == Written(s) /\ LeadingSpaces(s) \in {2, 3} /\ EndsWithColon(s)
IsPropertyLine(s) ==
    Written(s) /\ LeadingSpaces(s) >= 4 /\ \E i \in 1..Len(s) : s[i] = ":"

\* the name a header line declares: its text before the final colon
HeaderName(s) == SubSeq(Trimmed(s), 1, Len(Trimmed(s)) - 1)

FirstColon(t) == CHOOSE i \in 1..Len(t) : t[i] = ":" /\ \A j \in 1..(i - 1) : t[j] # ":"
\* the key and the written value of a property line `key: value`
WrittenKey(s) == SubSeq(Trimmed(s), 1, FirstColon(Trimmed(s)) - 1)
WrittenValue(s) ==
    Trimmed(SubSeq(Trimmed(s), FirstColon(Trimmed(s)) + 1, Len(Trimmed(s))))

DigitSeq == <<"0", "1", "2", "3", "4", "5", "6", "7", "8", "9">>
OnlyDigits(v) == v # <<>> /\ \A i \in 1..Len(v) : v[i] \in Range(DigitSeq)
\* the integer a string of digits denotes
NumberOf(v) ==
    LET digit(c) == (CHOOSE i \in 1..10 : DigitSeq[i] = c) - 1
        upto[i \in 0..Len(v)] == IF i = 0 THEN 0 ELSE 10 * upto[i - 1] + digit(v[i])
    IN upto[Len(v)]

IsBracketed(v) == Len(v) >= 2 /\ v[1] = "[" /\ v[Len(v)] = "]"
IsQuoted(v) == Len(v) >= 2 /\ v[1] = "\"" /\ v[Len(v)] = "\""
NonEmpty(item) == item # <<>>

\* the value the documentation gives a written value
DocumentedValue(v) ==
    IF IsBracketed(v)
    THEN ListValue(SelectSeq(KeywordsOf(SubSeq(v, 2, Len(v) - 1)), NonEmpty))
    ELSE IF OnlyDigits(v)
    THEN IntValue(NumberOf(v))
    ELSE IF IsQuoted(v)
         THEN StrValue(SubSeq(v, 2, Len(v) - 1))
         ELSE StrValue(v)

\* the unit is recorded under the section in the mapping m
Recorded(m, section, unit) ==
    /\ Truthy(section) /\ Truthy(unit)
    /\ HasKey(m, section.val)
    /\ HasKey(Lookup(m, section.val), unit.val)

\* C11: reading one line of the file, load_metadata stores for a property
\* line `key: value` of a recorded unit the list of the trimmed non-empty
\* comma-separated items of [a, b, c], the integer of a value of digits, and
\* otherwise the string with one pair of surrounding double quotes removed;
\* a blank line or a comment changes nothing; a section header leaves its
\* section without units and a unit header leaves its unit without
\* properties.
C11_LoadedValues ==
    [][ HasLine =>
          /\ (IsBlankLine(RawLine) \/ IsCommentLine(RawLine)) =>
               /\ lmetadata' = lmetadata
               /\ current_section' = current_section
               /\ current_unit' = current_unit
               /\ lpc' = "loop"
          /\ IsSectionHeader(RawLine) =>
               /\ HasKey(lmetadata', HeaderName(RawLine))
               /\ Lookup(lmetadata', HeaderName(RawLine)) = <<>>
          /\ (IsUnitHeader(RawLine) /\ Truthy(current_section)) =>
               /\ Recorded(lmetadata', current_section, Some(HeaderName(RawLine)))
               /\ Lookup(Lookup(lmetadata', current_section.val),
                         HeaderName(RawLine)) = <<>>
          /\ (/\ IsPropertyLine(RawLine)
              /\ Recorded(lmetadata, current_section, current_unit)) =>
               LET props == Lookup(Lookup(lmetadata', current_section.val),
                                   current_unit.val) IN
               /\ lpc' = "loop"
               /\ HasKey(props, WrittenKey(RawLine))
               /\ Lookup(props, WrittenKey(RawLine)) =
                    DocumentedValue(WrittenValue(RawLine)) ]_vars

\* C12: load_metadata never raises, and whenever it is about to store a
\* property (a property line is next, with a section and a unit current)
\* the current unit is recorded under the current section.
C12_StoresUnderRecordedUnit ==
    /\ (/\ HasLine
        /\ IsPropertyLine(RawLine)
        /\ Truthy(current_section)
        /\ Truthy(current_unit)) =>
          Recorded(lmetadata, current_section, current_unit)
    /\ lpc \notin {"KeyError", "ValueError"}

====
